---- MODULE Spec2Model ----
(***************************************************************************)
(* A state-machine model of gancer's Vox2VoxModel                          *)
(* (src/gancer/models/vox2vox_model.py): initialize, set_input, forward,   *)
(* test, the eight steps of optimize_parameters, and save.                 *)
(*                                                                         *)
(* Tensors are symbolic.  A tensor value records what it was computed      *)
(* from; a Variable also records whether it is volatile and which          *)
(* networks' parameters its autograd graph reaches (graph).  backward()    *)
(* on a loss accumulates that loss's tag into the gradient buffer of every *)
(* network in the loss's graph.  Parameter values are small integers in    *)
(* units of 0.01.                                                          *)
(***************************************************************************)
EXTENDS Integers, Sequences, FiniteSets, TLC

\* ------------------------------------------------------------------ bounds
MaxSteps == 3
MaxPool == 2
MaxRuns == 3

\* ------------------------------------------------- program constants, inputs
\* clamp_(-0.01, 0.01), in units of 0.01
ClipBound == 1

\* The values a discriminator and a generator parameter range over.
DVals == (-2 * ClipBound)..(2 * ClipBound)
GVals == 0..ClipBound
Batches == {1, 2}
Labels == {"latest", "best"}
ReconNames == {"l1", "l2", "huber"}
InitD == {<<2, -2>>, <<0, 1>>}
InitG == <<0>>

None == <<>>
Some(x) == <<x>>

VARIABLES
    status,       \* "new" | "ready" | "failed": where initialize left the model
    error,        \* the exception initialize raised, or "none"
    opt,          \* the options given to initialize
    attrs,        \* the attributes initialize has set on the model
    paramG,       \* netG's parameters, a tuple
    paramD,       \* netD's parameters, a tuple (<<>> when netD does not exist)
    gradG,        \* netG's .grad buffers: the set of loss tags accumulated
    gradD,        \* netD's .grad buffers
    pool,         \* fake_AB_pool's stored images
    input_A, input_B, image_paths,
    real_A, fake_B, real_B,
    losses,       \* loss_D_fake, loss_D_real, loss_G_GAN, loss_G_L1
    disk,         \* the checkpoint files: label -> network name -> parameters
    pc,           \* position inside optimize_parameters, "idle" outside it
    steps,        \* optimize_parameters calls started on this model
    runs,         \* models constructed so far
    loaded,       \* history: the network names initialize loaded
    trace,        \* history: the operations of the current optimize_parameters call
    queried       \* history: the images passed to fake_AB_pool.query so far

vars == <<status, error, opt, attrs, paramG, paramD, gradG, gradD, pool,
          input_A, input_B, image_paths, real_A, fake_B, real_B, losses,
          disk, pc, steps, runs, loaded, trace, queried>>

\* ---------------------------------------------------------------- tensors
Tensor(dom, k) == [val |-> <<dom, k>>, dev |-> "cpu"]

\* The batch the data loader hands to set_input.
Batch(k) ==
    [A |-> Tensor("A", k), B |-> Tensor("B", k),
     A_paths |-> <<"A_paths", k>>, B_paths |-> <<"B_paths", k>>]

\* tensor.cuda(gpu_ids[0]): the same values on the device.
Cuda(t) == [t EXCEPT !.dev = "cuda"]

\* Variable(tensor, volatile=...): a graph leaf that requires no gradient.
Variable(t, vol) == [val |-> t.val, dev |-> t.dev, volatile |-> vol, graph |-> {}]

\* variable.data: the raw tensor, without its graph.
DataOf(v) == [val |-> v.val, dev |-> v.dev]

\* variable.detach(): the same values, cut off from the graph.
Detach(v) == [v EXCEPT !.graph = {}]

\* torch.cat((x, y), 1)
Cat(x, y) ==
    [val |-> <<x.val, y.val>>, dev |-> x.dev,
     volatile |-> x.volatile \/ y.volatile,
     graph |-> IF x.volatile \/ y.volatile THEN {} ELSE x.graph \cup y.graph]

\* self.netG(x): the output depends on the generator's parameters.
NetG(p, x) ==
    [val |-> <<"G", p, x.val>>, dev |-> x.dev, volatile |-> x.volatile,
     graph |-> IF x.volatile THEN {} ELSE x.graph \cup {"G"}]

\* self.netD(x): the discriminator's score of x.
NetD(x) ==
    [val |-> x.val, dev |-> x.dev, volatile |-> x.volatile,
     graph |-> IF x.volatile THEN {} ELSE x.graph \cup {"D"}]

\* ----------------------------------------------------------------- options
LoadMode(o) == ~o.isTrain \/ o.continue_train

\* Every option record; options initialize never reads in a mode keep their
\* default there.
Opts ==
    {o \in [isTrain : BOOLEAN, continue_train : BOOLEAN, wasserstein : BOOLEAN,
            recon_loss : ReconNames, pool_size : 0..MaxPool,
            which_direction : {"AtoB", "BtoA"}, gpu : BOOLEAN,
            which_epoch : Labels] :
        /\ ~o.isTrain => (~o.continue_train /\ ~o.wasserstein /\ o.pool_size = 0)
        /\ ~LoadMode(o) => o.which_epoch = "latest"}

\* The options of a fresh training run on the CPU (no resume, a supported
\* reconstruction loss).
TrainOpts ==
    {o \in Opts : o.isTrain /\ ~o.continue_train /\ o.recon_loss = "l1" /\ ~o.gpu}

NoOpt ==
    [isTrain |-> FALSE, continue_train |-> FALSE, wasserstein |-> FALSE,
     recon_loss |-> "l1", pool_size |-> 0, which_direction |-> "AtoB",
     gpu |-> FALSE, which_epoch |-> "latest"]

\* ------------------------------------------------------------- checkpoints
NoCheckpoint == [G |-> None, D |-> None]

\* BaseModel.save_network(network, name, label, gpu_ids)
SaveNetwork(d, params, name, label) == [d EXCEPT ![label][name] = Some(params)]

\* BaseModel.load_network(network, name, label): the stored parameters, if any
LoadNetwork(d, name, label) == d[label][name]

\* --------------------------------------------------------------- ImagePool
\* ImagePool(pool_size): an empty pool of the given capacity
ImagePool(n) == [size |-> n, images |-> <<>>]

\* Mutant of PoolCapacity: one slot more than configured.
PoolCapacity_OneMore(o) == o.pool_size + 1

\* The capacity initialize builds fake_AB_pool with (line 35).
PoolCapacity(o) == o.pool_size

\* The random draws query can make on pool p: 0 passes the input through,
\* i > 0 swaps it with slot i.
QueryChoices(p) ==
    IF p.size > 0 /\ Len(p.images) >= p.size THEN 0..p.size ELSE {0}

\* ImagePool.query(image) under draw c: the returned image and the pool after.
Query(p, image, c) ==
    IF p.size = 0 THEN [ret |-> image, pool |-> p]
    ELSE IF Len(p.images) < p.size
    THEN [ret |-> image, pool |-> [p EXCEPT !.images = Append(@, image)]]
    ELSE IF c = 0 THEN [ret |-> image, pool |-> p]
    ELSE [ret |-> p.images[c], pool |-> [p EXCEPT !.images[c] = image]]

\* ------------------------------------------------------------------ losses
\* self.criterionGAN(pred, label), as chosen at lines 38-42
CriterionGAN(o, pred, label) ==
    [crit |-> IF o.wasserstein THEN "wasserstein" ELSE "GANLoss",
     label |-> label, of |-> pred.val, graph |-> pred.graph]

\* self.criterionL1(x, y) * lambda_A, as chosen at lines 43-46
CriterionL1(o, x, y) ==
    [crit |-> IF o.recon_loss = "l1" THEN "L1Loss" ELSE "MSELoss",
     label |-> TRUE, of |-> <<x.val, y.val>>,
     graph |-> IF x.volatile \/ y.volatile THEN {} ELSE x.graph \cup y.graph]

\* What loss.backward() adds to network n's gradient buffers.
Backward(loss_graph, tag, n, grad) ==
    IF n \in loss_graph THEN grad \cup {tag} ELSE grad

NoLosses == [D_fake |-> None, D_real |-> None, G_GAN |-> None, G_L1 |-> None]

\* -------------------------------------------------------------- parameters
\* The values one Adam step can move parameter value v to, within vals.
StepTo(v, vals) == {w \in vals : w - v \in {-1, 0, 1}}

\* optimizer.step() on a tuple of parameters: every outcome it can produce.
StepOutcomes(ps, vals) ==
    {qs \in [1..Len(ps) -> vals] : \A i \in 1..Len(ps) : qs[i] \in StepTo(ps[i], vals)}

Clamp(v, lo, hi) == IF v < lo THEN lo ELSE IF v > hi THEN hi ELSE v

\* Mutant of ClipD: the clamp has no lower bound.
ClipD_UpperOnly(ps) == [i \in 1..Len(ps) |-> Clamp(ps[i], ps[i], ClipBound)]

\* clip_D: D_param.data.clamp_(-0.01, 0.01) for every parameter
ClipD(ps) == [i \in 1..Len(ps) |-> Clamp(ps[i], -ClipBound, ClipBound)]


\* -------------------------------------------------------------- initialize
\* The exception initialize raises under options o with checkpoints d.
InitError(o, d) ==
    IF LoadMode(o) /\ LoadNetwork(d, "G", o.which_epoch) = None THEN "IOError"
    ELSE IF LoadMode(o) /\ o.isTrain /\ LoadNetwork(d, "D", o.which_epoch) = None
    THEN "IOError"
    ELSE IF o.isTrain /\ o.recon_loss \notin {"l1", "l2"} THEN "NotImplementedError"
    ELSE "none"

\* Mutant of InitLoaded: only the generator is loaded.
InitLoaded_GeneratorOnly(o, d) ==
    IF ~LoadMode(o) \/ LoadNetwork(d, "G", o.which_epoch) = None THEN {} ELSE {"G"}

\* The networks initialize loads from the checkpoint (lines 28-31).
InitLoaded(o, d) ==
    IF ~LoadMode(o) \/ LoadNetwork(d, "G", o.which_epoch) = None THEN {}
    ELSE IF o.isTrain /\ LoadNetwork(d, "D", o.which_epoch) # None THEN {"G", "D"}
    ELSE {"G"}

\* Mutant of InitAttrs: the optimizers are built before the losses are selected.
InitAttrs_OptimizersFirst(o, err) ==
    {"opt", "netG"}
    \cup (IF o.isTrain THEN {"netD"} ELSE {})
    \cup (IF o.isTrain /\ err # "IOError"
          THEN {"fake_AB_pool", "criterionGAN", "schedulers", "optimizers",
                "optimizer_G", "optimizer_D"}
          ELSE {})
    \cup (IF o.isTrain /\ err = "none" THEN {"criterionL1"} ELSE {})

\* The attributes initialize has set when it returns or raises err.
InitAttrs(o, err) ==
    {"opt", "netG"}
    \cup (IF o.isTrain THEN {"netD"} ELSE {})
    \cup (IF o.isTrain /\ err # "IOError" THEN {"fake_AB_pool", "criterionGAN"} ELSE {})
    \cup (IF o.isTrain /\ err = "none"
          THEN {"criterionL1", "schedulers", "optimizers", "optimizer_G", "optimizer_D"}
          ELSE {})

Init ==
    /\ status = "new" /\ error = "none" /\ opt = NoOpt /\ attrs = {}
    /\ paramG = None /\ paramD = None /\ gradG = {} /\ gradD = {}
    /\ pool = ImagePool(0)
    /\ input_A = None /\ input_B = None /\ image_paths = None
    /\ real_A = None /\ fake_B = None /\ real_B = None
    /\ losses = NoLosses
    /\ disk = [l \in Labels |-> NoCheckpoint]
    /\ pc = "idle" /\ steps = 0 /\ runs = 1
    /\ loaded = {} /\ trace = <<>> /\ queried = {}

\* A new Vox2VoxModel object in a new run of the driver; the checkpoint files stay.
NewModel ==
    /\ status # "new" /\ pc = "idle" /\ runs < MaxRuns
    /\ status' = "new" /\ error' = "none" /\ opt' = NoOpt /\ attrs' = {}
    /\ paramG' = None /\ paramD' = None /\ gradG' = {} /\ gradD' = {}
    /\ pool' = ImagePool(0)
    /\ input_A' = None /\ input_B' = None /\ image_paths' = None
    /\ real_A' = None /\ fake_B' = None /\ real_B' = None
    /\ losses' = NoLosses
    /\ steps' = 0 /\ runs' = runs + 1
    /\ loaded' = {} /\ trace' = <<>> /\ queried' = {}
    /\ UNCHANGED <<disk, pc>>

Initialize(options) ==
    /\ status = "new"
    /\ \E o \in options, d0 \in InitD :
        LET err == InitError(o, disk)
            ld == InitLoaded(o, disk)
        IN  /\ opt' = o
            /\ error' = err
            /\ status' = IF err = "none" THEN "ready" ELSE "failed"
            /\ attrs' = InitAttrs(o, err)
            /\ loaded' = ld
            /\ paramG' = IF "G" \in ld THEN LoadNetwork(disk, "G", o.which_epoch)[1]
                         ELSE InitG
            /\ paramD' = IF ~o.isTrain THEN None
                         ELSE IF "D" \in ld THEN LoadNetwork(disk, "D", o.which_epoch)[1]
                         ELSE d0
            /\ pool' = IF "fake_AB_pool" \in InitAttrs(o, err)
                       THEN ImagePool(PoolCapacity(o)) ELSE ImagePool(0)
    /\ UNCHANGED <<gradG, gradD, input_A, input_B, image_paths, real_A, fake_B,
                   real_B, losses, disk, pc, steps, runs, trace, queried>>

\* --------------------------------------------------------------- set_input
\* Mutant of SetInputResult: 'A_paths' is read whatever the direction.
SetInputResult_AlwaysAPaths(o, input) ==
    LET AtoB == o.which_direction = "AtoB"
        a == input[IF AtoB THEN "A" ELSE "B"]
        b == input[IF AtoB THEN "B" ELSE "A"]
    IN  [input_A |-> IF o.gpu THEN Cuda(a) ELSE a,
         input_B |-> IF o.gpu THEN Cuda(b) ELSE b,
         image_paths |-> input["A_paths"]]

\* The three attributes set_input assigns from batch `input`.
SetInputResult(o, input) ==
    LET AtoB == o.which_direction = "AtoB"
        a == input[IF AtoB THEN "A" ELSE "B"]
        b == input[IF AtoB THEN "B" ELSE "A"]
    IN  [input_A |-> IF o.gpu THEN Cuda(a) ELSE a,
         input_B |-> IF o.gpu THEN Cuda(b) ELSE b,
         image_paths |-> input[IF AtoB THEN "A_paths" ELSE "B_paths"]]

SetInput ==
    /\ status = "ready" /\ pc = "idle"
    /\ \E k \in Batches :
        LET r == SetInputResult(opt, Batch(k))
        IN  /\ input_A' = Some(r.input_A)
            /\ input_B' = Some(r.input_B)
            /\ image_paths' = Some(r.image_paths)
    /\ UNCHANGED <<status, error, opt, attrs, paramG, paramD, gradG, gradD, pool,
                   real_A, fake_B, real_B, losses, disk, pc, steps, runs, loaded,
                   trace, queried>>

\* ------------------------------------------------------------ forward, test
\* real_A, fake_B and real_B as forward sets them (lines 81-83).
ForwardResult ==
    LET ra == Variable(input_A[1], FALSE)
    IN  [real_A |-> ra, fake_B |-> NetG(paramG, ra),
         real_B |-> Variable(input_B[1], FALSE)]

Forward ==
    /\ status = "ready" /\ pc = "idle" /\ input_A # None
    /\ LET r == ForwardResult
       IN  /\ real_A' = Some(r.real_A)
           /\ fake_B' = Some(r.fake_B)
           /\ real_B' = Some(r.real_B)
    /\ UNCHANGED <<status, error, opt, attrs, paramG, paramD, gradG, gradD, pool,
                   input_A, input_B, image_paths, losses, disk, pc, steps, runs,
                   loaded, trace, queried>>

\* Mutant of TestResult: real_B is read from input_A.
TestResult_RealBFromA ==
    LET ra == Variable(input_A[1], TRUE)
    IN  [real_A |-> ra, fake_B |-> NetG(paramG, ra),
         real_B |-> Variable(input_A[1], TRUE)]

\* real_A, fake_B and real_B as test sets them (lines 87-89).
TestResult ==
    LET ra == Variable(input_A[1], TRUE)
    IN  [real_A |-> ra, fake_B |-> NetG(paramG, ra),
         real_B |-> Variable(input_B[1], TRUE)]

Test ==
    /\ status = "ready" /\ pc = "idle" /\ input_A # None
    /\ LET r == TestResult
       IN  /\ real_A' = Some(r.real_A)
           /\ fake_B' = Some(r.fake_B)
           /\ real_B' = Some(r.real_B)
    /\ UNCHANGED <<status, error, opt, attrs, paramG, paramD, gradG, gradD, pool,
                   input_A, input_B, image_paths, losses, disk, pc, steps, runs,
                   loaded, trace, queried>>


\* ------------------------------------------------------ optimize_parameters
\* Mutant of OptimizerGParams: optimizer_G is built over both networks' parameters.
OptimizerGParams_Both == {"G", "D"}

\* The networks whose parameters each optimizer was built over (lines 53-56).
OptimizerGParams == {"G"}

OptimizerDParams == {"D"}

\* optimizer.step() as it acts on network n's parameters ps with gradients grad:
\* a network the optimizer does not own, or one with no gradient, is left alone.
StepParams(owned, n, ps, grad) ==
    IF n \in owned /\ grad # {} /\ ps # None
    THEN StepOutcomes(ps, IF n = "G" THEN GVals ELSE DVals)
    ELSE {ps}

\* Mutant of DFakeInput: the gradient-connected pair is scored, as in backward_G.
DFakeInput_NoDetach(ra, fb, ret) == Cat(ra, fb)

\* The tensor the discriminator scores as fake in backward_D, given what the
\* pool returned (lines 98-100).
DFakeInput(ra, fb, ret) == Detach(Variable(ret, FALSE))

\* Mutant of QueryImage: the pool is handed real_A paired with itself.
QueryImage_RealPair(ra, fb) == DataOf(Cat(ra, ra))

\* The image backward_D passes to fake_AB_pool.query (lines 98-99).
QueryImage(ra, fb) == DataOf(Cat(ra, fb))

\* The tensor the discriminator scores in backward_G (line 115).
GFakeInput(ra, fb) == Cat(ra, fb)

\* Mutant of AfterStepD: clip_D runs whatever the mode.
AfterStepD_AlwaysClip(o) == "clip_D"

\* Where optimize_parameters goes after optimizer_D.step() (lines 133-136).
AfterStepD(o) == IF o.wasserstein THEN "clip_D" ELSE "zero_grad_G"

LossTag(name) == <<name, steps>>

modelVars == <<status, error, opt, attrs, disk, runs, loaded>>

inputVars == <<input_A, input_B, image_paths>>

OptForward ==
    /\ status = "ready" /\ opt.isTrain /\ pc = "idle" /\ input_A # None
    /\ steps < MaxSteps
    /\ LET r == ForwardResult
       IN  /\ real_A' = Some(r.real_A)
           /\ fake_B' = Some(r.fake_B)
           /\ real_B' = Some(r.real_B)
    /\ steps' = steps + 1
    /\ trace' = <<"forward">>
    /\ pc' = "zero_grad_D"
    /\ UNCHANGED <<modelVars, inputVars, paramG, paramD, gradG, gradD, pool, losses,
                   queried>>

OptZeroGradD ==
    /\ pc = "zero_grad_D"
    /\ gradD' = {}
    /\ trace' = Append(trace, "optimizer_D.zero_grad")
    /\ pc' = "backward_D"
    /\ UNCHANGED <<modelVars, inputVars, paramG, paramD, gradG, pool, real_A, fake_B,
                   real_B, losses, steps, queried>>

OptBackwardD ==
    /\ pc = "backward_D"
    /\ LET image == QueryImage(real_A[1], fake_B[1])
       IN  \E c \in QueryChoices(pool) :
            LET q == Query(pool, image, c)
                fake_AB == DFakeInput(real_A[1], fake_B[1], q.ret)
                loss_D_fake == CriterionGAN(opt, NetD(fake_AB), FALSE)
                real_AB == Cat(real_A[1], real_B[1])
                loss_D_real == CriterionGAN(opt, NetD(real_AB), TRUE)
                graph == loss_D_fake.graph \cup loss_D_real.graph
            IN  /\ pool' = q.pool
                /\ queried' = queried \cup {image}
                /\ losses' = [losses EXCEPT !.D_fake = Some(loss_D_fake),
                                            !.D_real = Some(loss_D_real)]
                /\ gradD' = Backward(graph, LossTag("loss_D"), "D", gradD)
                /\ gradG' = Backward(graph, LossTag("loss_D"), "G", gradG)
    /\ trace' = Append(trace, "backward_D")
    /\ pc' = "step_D"
    /\ UNCHANGED <<modelVars, inputVars, paramG, paramD, real_A, fake_B, real_B,
                   steps>>

OptStepD ==
    /\ pc = "step_D"
    /\ paramD' \in StepParams(OptimizerDParams, "D", paramD, gradD)
    /\ paramG' \in StepParams(OptimizerDParams, "G", paramG, gradG)
    /\ trace' = Append(trace, "optimizer_D.step")
    /\ pc' = AfterStepD(opt)
    /\ UNCHANGED <<modelVars, inputVars, gradG, gradD, pool, real_A, fake_B, real_B,
                   losses, steps, queried>>

OptClipD ==
    /\ pc = "clip_D"
    /\ paramD' = ClipD(paramD)
    /\ trace' = Append(trace, "clip_D")
    /\ pc' = "zero_grad_G"
    /\ UNCHANGED <<modelVars, inputVars, paramG, gradG, gradD, pool, real_A, fake_B,
                   real_B, losses, steps, queried>>

OptZeroGradG ==
    /\ pc = "zero_grad_G"
    /\ gradG' = {}
    /\ trace' = Append(trace, "optimizer_G.zero_grad")
    /\ pc' = "backward_G"
    /\ UNCHANGED <<modelVars, inputVars, paramG, paramD, gradD, pool, real_A, fake_B,
                   real_B, losses, steps, queried>>

OptBackwardG ==
    /\ pc = "backward_G"
    /\ LET fake_AB == GFakeInput(real_A[1], fake_B[1])
           loss_G_GAN == CriterionGAN(opt, NetD(fake_AB), TRUE)
           loss_G_L1 == CriterionL1(opt, fake_B[1], real_B[1])
           graph == loss_G_GAN.graph \cup loss_G_L1.graph
       IN  /\ losses' = [losses EXCEPT !.G_GAN = Some(loss_G_GAN),
                                       !.G_L1 = Some(loss_G_L1)]
           /\ gradD' = Backward(graph, LossTag("loss_G"), "D", gradD)
           /\ gradG' = Backward(graph, LossTag("loss_G"), "G", gradG)
    /\ trace' = Append(trace, "backward_G")
    /\ pc' = "step_G"
    /\ UNCHANGED <<modelVars, inputVars, paramG, paramD, pool, real_A, fake_B, real_B,
                   steps, queried>>

OptStepG ==
    /\ pc = "step_G"
    /\ paramG' \in StepParams(OptimizerGParams, "G", paramG, gradG)
    /\ paramD' \in StepParams(OptimizerGParams, "D", paramD, gradD)
    /\ trace' = Append(trace, "optimizer_G.step")
    /\ pc' = "idle"
    /\ UNCHANGED <<modelVars, inputVars, gradG, gradD, pool, real_A, fake_B, real_B,
                   losses, steps, queried>>

\* -------------------------------------------------------------------- save
\* save(label) during training (without netD, in inference mode, line 159 raises).
Save ==
    /\ status = "ready" /\ opt.isTrain /\ pc = "idle"
    /\ \E label \in Labels :
        disk' = SaveNetwork(SaveNetwork(disk, paramG, "G", label), paramD, "D", label)
    /\ UNCHANGED <<status, error, opt, attrs, paramG, paramD, gradG, gradD, pool,
                   input_A, input_B, image_paths, real_A, fake_B, real_B, losses,
                   pc, steps, runs, loaded, trace, queried>>

\* The model's life around training: construction, initialize, inputs, inference
\* passes and checkpoints.
LifeNext ==
    \/ NewModel
    \/ Initialize(Opts)
    \/ SetInput
    \/ Forward
    \/ Test
    \/ Save

LifeSpec == Init /\ [][LifeNext]_vars

\* A training run: initialize, then the driver's loop of set_input,
\* optimize_parameters and evaluation passes.
Next ==
    \/ Initialize(TrainOpts)
    \/ SetInput
    \/ Forward
    \/ Test
    \/ OptForward
    \/ OptZeroGradD
    \/ OptBackwardD
    \/ OptStepD
    \/ OptClipD
    \/ OptZeroGradG
    \/ OptBackwardG
    \/ OptStepG

Spec == Init /\ [][Next]_vars

\* ================================================================== claims
ExpectedTrace(w) ==
    <<"forward", "optimizer_D.zero_grad", "backward_D", "optimizer_D.step">>
    \o (IF w THEN <<"clip_D">> ELSE <<>>)
    \o <<"optimizer_G.zero_grad", "backward_G", "optimizer_G.step">>

InCall == pc # "idle"

\* C1: every optimize_parameters call performs forward, D zero_grad, backward_D,
\* D step, clip_D (Wasserstein mode only), G zero_grad, backward_G, G step, once
\* each and in this order; fake_B is the forward's output throughout the call,
\* and both backward passes read it: backward_D hands cat(real_A, fake_B) to the
\* pool and backward_G scores cat(real_A, fake_B).
C1_StepOrder ==
    [][/\ (InCall /\ pc' = "idle") => trace' = ExpectedTrace(opt.wasserstein)
       /\ InCall => /\ trace = SubSeq(ExpectedTrace(opt.wasserstein), 1, Len(trace))
                    /\ fake_B = Some(NetG(paramG, Variable(input_A[1], FALSE)))
                    /\ fake_B' = fake_B /\ real_A' = real_A
       /\ pc = "backward_D" =>
            queried' = queried \cup {DataOf(Cat(real_A[1], fake_B[1]))}
       /\ pc = "backward_G" =>
            losses'.G_GAN[1].of = Cat(real_A[1], fake_B[1]).val
      ]_vars

C1_Witness ==
    /\ pc = "idle" /\ steps = 2 /\ opt.wasserstein
    /\ trace = ExpectedTrace(TRUE)

\* The discriminator optimizer has stepped at least once on this model.
DStepped ==
    \/ steps > 1
    \/ steps = 1 /\ pc \in {"clip_D", "zero_grad_G", "backward_G", "step_G", "idle"}

InClipRange(ps) == \A i \in 1..Len(ps) : -ClipBound <= ps[i] /\ ps[i] <= ClipBound

\* C2: in Wasserstein mode, once a discriminator step and its clipping are done,
\* every discriminator parameter lies in [-0.01, 0.01]: when backward_G runs, when
\* optimize_parameters returns, and in every state up to the next discriminator
\* optimizer step.
C2_ClippedAfterDStep ==
    (opt.wasserstein /\ DStepped /\ pc # "clip_D") => InClipRange(paramD)

C2_Witness ==
    /\ opt.wasserstein /\ pc = "backward_G" /\ steps = 2
    /\ paramD = <<ClipBound, -ClipBound>>

\* The queries made on this model's pool so far: one per backward_D.
Queries == IF pc \in {"zero_grad_D", "backward_D"} THEN steps - 1 ELSE steps

AfterBackwardD == pc \in {"step_D", "clip_D", "zero_grad_G", "backward_G", "step_G"}

Min(a, b) == IF a < b THEN a ELSE b

\* C3: the pool never stores more than its capacity N = pool_size; after M <= N
\* queries it stores M images and each of those queries returned its input;
\* with capacity 0 every query returns its input and nothing is stored.
C3_PoolBound ==
    (status = "ready" /\ opt.isTrain) =>
        /\ pool.size = opt.pool_size
        /\ Len(pool.images) <= opt.pool_size
        /\ Len(pool.images) = Min(Queries, opt.pool_size)
        /\ (AfterBackwardD /\ Queries <= opt.pool_size) =>
              /\ losses.D_fake[1].of = Cat(real_A[1], fake_B[1]).val
              /\ pool.images[Queries] = DataOf(Cat(real_A[1], fake_B[1]))
        /\ (AfterBackwardD /\ opt.pool_size = 0) =>
              /\ losses.D_fake[1].of = Cat(real_A[1], fake_B[1]).val
              /\ pool.images = <<>>

C3_Witness ==
    /\ pc = "step_D" /\ opt.pool_size = 2 /\ Queries = 2
    /\ Len(pool.images) = 2 /\ pool.images[1] # pool.images[2]

\* C4: a query on a full pool of capacity N > 0 either returns its input and
\* leaves the storage alone, or returns one slot's content and puts the input in
\* that slot and no other; the count stays N, and what is returned is the input
\* or an image passed to an earlier query.
C4_FullPoolQuery ==
    [][(pc = "backward_D" /\ pool.size > 0 /\ Len(pool.images) = pool.size) =>
        LET image == DataOf(Cat(real_A[1], fake_B[1]))
            ret == losses'.D_fake[1].of
        IN  /\ \/ ret = image.val /\ pool' = pool
               \/ \E i \in 1..pool.size :
                    /\ ret = pool.images[i].val
                    /\ pool' = [pool EXCEPT !.images[i] = image]
            /\ Len(pool'.images) = pool.size
            /\ ret \in {image.val} \cup {q.val : q \in queried}
      ]_vars

C4_Witness ==
    /\ pc = "step_D" /\ opt.pool_size = 2 /\ Queries = 3
    /\ pool.images[2] = DataOf(Cat(real_A[1], fake_B[1]))
    /\ losses.D_fake[1].of # Cat(real_A[1], fake_B[1]).val
    /\ pool.images[1] # pool.images[2]


OptimizerAttrs == {"optimizer_G", "optimizer_D", "optimizers", "schedulers"}

BadRecon(o) == o.recon_loss \notin {"l1", "l2"}

SourceKey(o) == IF o.which_direction = "AtoB" THEN "A" ELSE "B"

TargetKey(o) == IF o.which_direction = "AtoB" THEN "B" ELSE "A"

PathsKey(o) == IF o.which_direction = "AtoB" THEN "A_paths" ELSE "B_paths"

\* C8: after set_input, input_A holds the batch's source-domain tensor ('A' for
\* AtoB, 'B' otherwise), input_B the other one, and image_paths the paths of
\* the source-domain tensor, all of one batch; and a set_input call changes
\* nothing but these three attributes.
C8_SetInput ==
    [][/\ (status' = "ready" /\ input_A' # None) =>
            \E k \in Batches :
                /\ input_A'[1].val = Batch(k)[SourceKey(opt')].val
                /\ input_B'[1].val = Batch(k)[TargetKey(opt')].val
                /\ image_paths'[1] = Batch(k)[PathsKey(opt')]
                /\ input_A'[1].dev = (IF opt'.gpu THEN "cuda" ELSE "cpu")
                /\ input_B'[1].dev = input_A'[1].dev
       /\ (status = "ready" /\ status' = "ready"
           /\ <<input_A, input_B, image_paths>>' # <<input_A, input_B, image_paths>>) =>
            UNCHANGED <<paramG, paramD, gradG, gradD, pool, losses, real_A, fake_B,
                        real_B, disk, attrs, opt>>
      ]_vars

C8_Witness ==
    /\ status = "ready" /\ opt.which_direction = "BtoA" /\ opt.gpu
    /\ input_A = Some(Cuda(Tensor("B", 2)))
    /\ input_B = Some(Cuda(Tensor("A", 2)))
    /\ image_paths = Some(<<"B_paths", 2>>)
    /\ real_A # None /\ real_A[1].val = <<"B", 1>>


\* C6: from the start of backward_D to the end of the discriminator optimizer
\* step and the clipping, no generator parameter changes and nothing is
\* accumulated into the generator's gradients; the loss backward_D
\* back-propagates reaches the discriminator's parameters only, whether the pool
\* returned the current pair or a stored one.
C6_DUpdateLeavesG ==
    [][/\ pc \in {"backward_D", "step_D", "clip_D"} =>
            (paramG' = paramG /\ gradG' = gradG)
       /\ pc = "backward_D" =>
            /\ losses'.D_fake[1].graph = {"D"}
            /\ losses'.D_real[1].graph = {"D"}
            /\ gradD' = {LossTag("loss_D")}
      ]_vars

C6_Witness ==
    /\ pc = "zero_grad_G" /\ steps = 3 /\ opt.wasserstein
    /\ gradG = {<<"loss_G", 2>>}
    /\ gradD = {<<"loss_D", 3>>}
    /\ losses.D_fake[1].of # Cat(real_A[1], fake_B[1]).val

\* A Variable's values and device, without its gradient bookkeeping.
Plain(v) == [val |-> v.val, dev |-> v.dev]

\* C9: test leaves real_A, real_B and fake_B = G(real_A) with the values forward
\* would leave for the same input and generator parameters, tracks no gradient,
\* and changes no parameter, gradient, pool, loss or optimizer progress.
C9_TestIsForwardNoGrad ==
    [][(status = "ready" /\ input_A # None /\ ~InCall
        /\ fake_B' # None /\ fake_B'[1].volatile
        /\ <<real_A, fake_B, real_B>>' # <<real_A, fake_B, real_B>>) =>
        /\ Plain(real_A'[1]) = Plain(ForwardResult.real_A)
        /\ Plain(fake_B'[1]) = Plain(ForwardResult.fake_B)
        /\ Plain(real_B'[1]) = Plain(ForwardResult.real_B)
        /\ fake_B'[1].val = <<"G", paramG, real_A'[1].val>>
        /\ fake_B'[1].graph = {} /\ real_A'[1].volatile /\ real_B'[1].volatile
        /\ UNCHANGED <<paramG, paramD, gradG, gradD, pool, queried, losses, steps,
                       pc, trace, input_A, input_B, image_paths, disk>>
      ]_vars

C9_Witness ==
    /\ pc = "idle" /\ steps = 2 /\ fake_B # None /\ fake_B[1].volatile
    /\ fake_B[1].val = <<"G", paramG, input_A[1].val>>
    /\ losses.G_GAN # None /\ losses.G_GAN[1].of[2] # fake_B[1].val
    /\ Len(pool.images) = 2

\* C10: backward_G adds loss_G's gradient to the discriminator's gradients as
\* well as the generator's, yet no step of the generator update (zero_grad,
\* backward_G, optimizer_G.step) changes a discriminator parameter; the
\* discriminator's gradients are empty when backward_D starts, so
\* optimizer_D.step sees the gradient of this call's loss_D alone, and
\* optimizer_G.step sees the gradient of this call's loss_G alone.
C10_NoGradientLeak ==
    [][/\ pc \in {"zero_grad_G", "backward_G", "step_G"} => paramD' = paramD
       /\ pc = "backward_G" =>
            /\ gradD' = gradD \cup {LossTag("loss_G")}
            /\ gradG' = {LossTag("loss_G")}
       /\ pc = "backward_D" => gradD = {}
       /\ pc = "step_D" => gradD = {LossTag("loss_D")}
       /\ pc = "step_G" => gradG = {LossTag("loss_G")}
      ]_vars

C10_Witness ==
    /\ pc = "step_D" /\ steps = 2
    /\ gradD = {<<"loss_D", 2>>} /\ gradG = {<<"loss_G", 1>>}


====
